---- MODULE Spec2Model ----
(***************************************************************************)
(* Food wastage dashboard (src/app.py): one Streamlit script that is rerun *)
(* on every widget event.  A run executes create_tables(), tab 1 (listing  *)
(* table, city filter, provider contacts), the add-listing form and tab 2  *)
(* (dashboard aggregates), in that order, over one shared sqlite3          *)
(* connection and two st.cache_data caches.  Between runs only time        *)
(* passes: cache entries and the connection expire, the date moves on.     *)
(*                                                                         *)
(* Text is a sequence of one-character strings, so that str.strip(),       *)
(* strftime and the date parser are computed character by character.       *)
(* Quantity is counted in tenths of a kilogram.                            *)
(***************************************************************************)
EXTENDS Integers, Sequences, FiniteSets

VARIABLES
    disk,        \* the committed database file: tables and their rows
    txn,         \* what the shared connection sees (committed + pending)
    cacheFood,   \* st.cache_data entry of load_food_listings
    cacheProv,   \* st.cache_data entries of load_providers_by_city, by city
    today,       \* date.today(), as days after Date0
    pc,          \* position of the script run
    trigger,     \* the widget event that started the run
    df,          \* the script's df (tab 1, then tab 2)
    contacts,    \* tab 1: the contact lookup of this run
    form,        \* the add-listing form of this run: input and outcome
    dash,        \* tab 2: the dashboard values of this run
    screen,      \* how the run ended: ok, stopped (st.stop) or exception
    orphans      \* history: rows written by add calls that reported failure

vars == <<disk, txn, cacheFood, cacheProv, today, pc, trigger, df, contacts,
          form, dash, screen, orphans>>

----------------------------------------------------------------------------
(* Bounds of the model *)

MaxRows == 2            \* rows the listing table grows to
MaxCached == 1          \* cities whose contact lookup is in the cache at once
MaxDay == 1             \* days the clock advances
MaxAggRows == 2         \* rows drawn freely into a pre-existing listing table

----------------------------------------------------------------------------
(* Text *)

Range(s) == {s[i] : i \in 1..Len(s)}

Whitespace == {" ", "\t"}

RECURSIVE LStrip(_)
LStrip(s) ==
    IF s # <<>> /\ Head(s) \in Whitespace THEN LStrip(Tail(s)) ELSE s

RECURSIVE RStrip(_)
RStrip(s) ==
    IF s # <<>> /\ s[Len(s)] \in Whitespace
    THEN RStrip(SubSeq(s, 1, Len(s) - 1))
    ELSE s

\* a strip() that trims nothing
StripNothing(s) == s

\* str.strip()
Strip(s) == RStrip(LStrip(s))

\* truth value of a str
Truthy(s) == s # <<>>

Unknown == <<"U", "n", "k", "n", "o", "w", "n">>

Veg == <<"V", "e", "g">>
NonVeg == <<"N", "o", "n", "-", "V", "e", "g">>
Vegan == <<"V", "e", "g", "a", "n">>

\* the options of the Meal Type selectbox
MealTypes == {Veg, NonVeg, Vegan}

----------------------------------------------------------------------------
(* Dates *)

Date0 == [y |-> 2024, m |-> 2, d |-> 28]

IsLeap(y) == (y % 4 = 0 /\ y % 100 # 0) \/ y % 400 = 0

DaysInMonth(y, m) ==
    IF m = 2 THEN (IF IsLeap(y) THEN 29 ELSE 28)
    ELSE IF m \in {4, 6, 9, 11} THEN 30 ELSE 31

NextDay(dt) ==
    IF dt.d < DaysInMonth(dt.y, dt.m) THEN [dt EXCEPT !.d = dt.d + 1]
    ELSE IF dt.m < 12 THEN [y |-> dt.y, m |-> dt.m + 1, d |-> 1]
    ELSE [y |-> dt.y + 1, m |-> 1, d |-> 1]

RECURSIVE DateAt(_)
DateAt(n) == IF n = 0 THEN Date0 ELSE NextDay(DateAt(n - 1))

DigitChars == <<"0", "1", "2", "3", "4", "5", "6", "7", "8", "9">>

Digit(k) == DigitChars[k + 1]

\* date.strftime("%Y-%m-%d")
Strftime(dt) ==
    << Digit(dt.y \div 1000), Digit((dt.y \div 100) % 10),
       Digit((dt.y \div 10) % 10), Digit(dt.y % 10), "-",
       Digit(dt.m \div 10), Digit(dt.m % 10), "-",
       Digit(dt.d \div 10), Digit(dt.d % 10) >>

IsDigit(c) == c \in Range(DigitChars)

DigitValue(c) == (CHOOSE k \in 1..10 : DigitChars[k] = c) - 1

NaT == [nat |-> TRUE, y |-> 0, m |-> 0, d |-> 0]

\* pd.to_datetime(text, errors='coerce') on YYYY-MM-DD text: anything that is
\* not a calendar date in that layout becomes NaT
ToDatetime(s) ==
    IF /\ Len(s) = 10
       /\ s[5] = "-" /\ s[8] = "-"
       /\ \A i \in {1, 2, 3, 4, 6, 7, 9, 10} : IsDigit(s[i])
    THEN LET y == DigitValue(s[1]) * 1000 + DigitValue(s[2]) * 100
                  + DigitValue(s[3]) * 10 + DigitValue(s[4])
             m == DigitValue(s[6]) * 10 + DigitValue(s[7])
             d == DigitValue(s[9]) * 10 + DigitValue(s[10])
         IN  IF y >= 1 /\ m \in 1..12 /\ d >= 1 /\ d <= DaysInMonth(y, m)
             THEN [nat |-> FALSE, y |-> y, m |-> m, d |-> d]
             ELSE NaT
    ELSE NaT

\* pd.Timestamp.today().normalize()
Timestamp(dt) == [nat |-> FALSE, y |-> dt.y, m |-> dt.m, d |-> dt.d]

\* Timestamp < Timestamp; any comparison with NaT is False
DateLess(a, b) ==
    /\ ~a.nat
    /\ ~b.nat
    /\ \/ a.y < b.y
       \/ a.y = b.y /\ a.m < b.m
       \/ a.y = b.y /\ a.m = b.m /\ a.d < b.d

----------------------------------------------------------------------------
(* The database: sqlite3 tables behind one shared connection *)

EmptyDb == [tables |-> {}, food_listings |-> <<>>, providers |-> <<>>]

\* CREATE TABLE <t>: an error when the table is already there
CreateTablePlain(db, t) ==
    IF t \in db.tables
    THEN [db |-> db, err |-> TRUE]
    ELSE [db |-> [db EXCEPT !.tables = @ \cup {t}], err |-> FALSE]

\* CREATE TABLE IF NOT EXISTS <t>
CreateTableIfNotExists(db, t) ==
    IF t \in db.tables
    THEN [db |-> db, err |-> FALSE]
    ELSE [db |-> [db EXCEPT !.tables = @ \cup {t}], err |-> FALSE]

\* id INTEGER PRIMARY KEY AUTOINCREMENT: one more than the largest id used
NextId(rows) == IF rows = <<>> THEN 1 ELSE rows[Len(rows)].id + 1

\* INSERT INTO food_listings (...) VALUES (?, ?, ?, ?, ?, ?, ?)
InsertListing(db, vals) ==
    [db EXCEPT !.food_listings =
        Append(@, [id |-> NextId(@),
                   Food_ID |-> vals.Food_ID,
                   Provider_ID |-> vals.Provider_ID,
                   Food_Item |-> vals.Food_Item,
                   Quantity |-> vals.Quantity,
                   Expiry_Date |-> vals.Expiry_Date,
                   Location |-> vals.Location,
                   Meal_Type |-> vals.Meal_Type])]

\* INSERT OR IGNORE INTO providers (Name, Contact, City): the row is skipped
\* only when it violates a constraint of the table, and the only key of
\* providers is its autoincrement id
InsertOrIgnoreProvider(db, vals) ==
    LET new == [id |-> NextId(db.providers), Name |-> vals.Name,
                Contact |-> vals.Contact, City |-> vals.City]
    IN  IF \E i \in 1..Len(db.providers) : db.providers[i].id = new.id
        THEN db
        ELSE [db EXCEPT !.providers = Append(@, new)]

\* create_tables(): both statements, then conn.commit()
CreateTables(db) ==
    LET a == CreateTableIfNotExists(db, "food_listings")
        b == CreateTableIfNotExists(a.db, "providers")
    IN  IF a.err THEN a ELSE b

----------------------------------------------------------------------------
(* The two cached readers *)

NoCache == [valid |-> FALSE, df |-> <<>>]

\* load_food_listings(): the cached frame while the entry lives; otherwise
\* SELECT * FROM food_listings, and st.stop() when the query raises
LoadFoodListings(cache, db, fault) ==
    IF cache.valid
    THEN [stop |-> FALSE, df |-> cache.df, cache |-> cache]
    ELSE IF fault \/ "food_listings" \notin db.tables
    THEN [stop |-> TRUE, df |-> <<>>, cache |-> cache]
    ELSE [stop |-> FALSE, df |-> db.food_listings,
          cache |-> [valid |-> TRUE, df |-> db.food_listings]]

RECURSIVE SelectByCity(_, _)
SelectByCity(rows, city) ==
    IF rows = <<>> THEN <<>>
    ELSE LET r == Head(rows)
             rest == SelectByCity(Tail(rows), city)
         IN  IF r.City = city
             THEN <<[Name |-> r.Name, Contact |-> r.Contact,
                     City |-> r.City]>> \o rest
             ELSE rest

\* SELECT Name, Contact, City FROM providers WHERE City = ?
ProvidersByCity(db, city) == SelectByCity(db.providers, city)

\* load_providers_by_city(city): the cached frame for this city while the
\* entry lives; otherwise the query, and an empty frame (after st.error) when
\* the query raises.  Whatever is returned is cached.
LoadProvidersByCity(cache, db, city, fault) ==
    IF \E e \in cache : e.city = city
    THEN LET e == CHOOSE e \in cache : e.city = city
         IN  [df |-> e.df, error |-> e.error, cache |-> cache]
    ELSE LET bad == fault \/ "providers" \notin db.tables
             res == IF bad THEN <<>> ELSE ProvidersByCity(db, city)
         IN  [df |-> res, error |-> bad,
              cache |-> cache \cup {[city |-> city, df |-> res, error |-> bad]}]

----------------------------------------------------------------------------
(* The add-listing form *)

\* st.number_input(min_value=0.1): 0.1 kg is one tenth
MinValue == 1

\* the widget never returns less than min_value
NumberInput(raw) == IF raw < MinValue THEN MinValue ELSE raw

StringFields == {"food_id", "provider_id", "food_item", "location",
                 "provider_name", "provider_contact"}

Goa == <<"G", "o", "a">>
Pune == <<"P", "u", "n", "e">>

\* what a user types when every field is filled in plainly
BaseInput(t) ==
    [food_id |-> <<"F", "1">>, provider_id |-> <<"P", "1">>,
     food_item |-> <<"r", "i", "c", "e">>, quantity |-> MinValue,
     expiry |-> MaxDay, location |-> Goa, meal_type |-> Veg,
     provider_name |-> <<"A", " ", "B">>, provider_contact |-> <<"9", "8">>]

\* a field left blank, and a field holding only whitespace
Blanks == {<<>>, <<" ", "\t">>}

\* a field typed with whitespace around it
Padded(s) == <<" ">> \o s \o <<"\t", " ">>

\* the inputs the form can submit on day t: the plain input; every text
\* field padded; one text field blank; and two other listings, one of them
\* with a quantity typed below the widget's minimum
Inputs(t) ==
    LET base == BaseInput(t)
    IN  {base}
        \cup {[f \in DOMAIN base |->
                  IF f \in StringFields THEN Padded(base[f]) ELSE base[f]]}
        \cup {[base EXCEPT ![f] = v] : f \in StringFields, v \in Blanks}
        \cup {[base EXCEPT !.location = Pune, !.quantity = NumberInput(0),
                           !.meal_type = NonVeg]}
        \cup {[base EXCEPT !.meal_type = Vegan,
                           !.quantity = NumberInput(25), !.expiry = t]}

\* validation that forgets the provider contact
ValidNoContact(inp) ==
    /\ Truthy(Strip(inp.food_id))
    /\ Truthy(Strip(inp.provider_id))
    /\ Truthy(Strip(inp.food_item))
    /\ Truthy(Strip(inp.location))
    /\ Truthy(Strip(inp.provider_name))
    /\ Truthy(inp.meal_type)
    /\ inp.quantity > 0

\* all([food_id.strip(), ..., meal_type]) and quantity > 0
Valid(inp) ==
    /\ Truthy(Strip(inp.food_id))
    /\ Truthy(Strip(inp.provider_id))
    /\ Truthy(Strip(inp.food_item))
    /\ Truthy(Strip(inp.location))
    /\ Truthy(Strip(inp.provider_name))
    /\ Truthy(Strip(inp.provider_contact))
    /\ Truthy(inp.meal_type)
    /\ inp.quantity > 0

ListingValues(inp) ==
    [Food_ID |-> Strip(inp.food_id), Provider_ID |-> Strip(inp.provider_id),
     Food_Item |-> Strip(inp.food_item), Quantity |-> inp.quantity,
     Expiry_Date |-> Strftime(DateAt(inp.expiry)),
     Location |-> Strip(inp.location), Meal_Type |-> inp.meal_type]

ProviderValues(inp) ==
    [Name |-> Strip(inp.provider_name),
     Contact |-> Strip(inp.provider_contact), City |-> Strip(inp.location)]

\* where the storage layer may raise inside the try block
Faults == {"none", "insert_listing", "insert_provider", "commit"}

\* what a click on "Add Food" can meet: any input with the storage layer
\* working, and the plain input with the storage layer failing somewhere
Submissions(t) ==
    {<<inp, "none">> : inp \in Inputs(t)}
    \cup {<<BaseInput(t), f>> : f \in Faults}

\* the submit handler: the connection's view after it, whether it committed,
\* and the message shown
AddListing(db, inp, fault) ==
    IF ~Valid(inp) THEN [db |-> db, commit |-> FALSE, outcome |-> "warning"]
    ELSE IF fault = "insert_listing"
    THEN [db |-> db, commit |-> FALSE, outcome |-> "error"]
    ELSE LET one == InsertListing(db, ListingValues(inp))
             two == InsertOrIgnoreProvider(one, ProviderValues(inp))
         IN  IF fault = "insert_provider"
             THEN [db |-> one, commit |-> FALSE, outcome |-> "error"]
             ELSE IF fault = "commit"
             THEN [db |-> two, commit |-> FALSE, outcome |-> "error"]
             ELSE [db |-> two, commit |-> TRUE, outcome |-> "success"]

----------------------------------------------------------------------------
(* Tab 2: the dashboard aggregates, over the frame load_food_listings gave *)

\* head(5)
TopN == 5

\* .fillna('Unknown').replace('', 'Unknown'); the columns are NOT NULL
FillUnknown(s) == IF s = <<>> THEN Unknown ELSE s

\* lines 159-164: Expiry_Date to datetime, Food_Item and Meal_Type cleaned
Clean(frame) ==
    [i \in 1..Len(frame) |->
        [frame[i] EXCEPT !.Expiry_Date = ToDatetime(@),
                         !.Food_Item = FillUnknown(@),
                         !.Meal_Type = FillUnknown(@)]]

RECURSIVE SumQuantity(_)
SumQuantity(frame) ==
    IF frame = <<>> THEN 0
    ELSE Head(frame).Quantity + SumQuantity(Tail(frame))

Keys(frame, col) == {frame[i][col] : i \in 1..Len(frame)}

RowsOf(frame, col, k) == SelectSeq(frame, LAMBDA r : r[col] = k)

\* a grouping that keeps only the first row of each group
GroupSumFirstRow(frame, col) ==
    [k \in Keys(frame, col) |-> Head(RowsOf(frame, col, k)).Quantity]

\* frame.groupby(col)["Quantity"].sum()
GroupSum(frame, col) ==
    [k \in Keys(frame, col) |-> SumQuantity(RowsOf(frame, col, k))]

\* frame.groupby(col)["Quantity"].mean(), as the fraction sum / count
GroupMean(frame, col) ==
    [k \in Keys(frame, col) |->
        [sum |-> SumQuantity(RowsOf(frame, col, k)),
         count |-> Len(RowsOf(frame, col, k))]]

\* the Is_Expired column: Expiry_Date < today, False for NaT
IsExpired(frame, now) ==
    [i \in 1..Len(frame) |-> DateLess(frame[i].Expiry_Date, now)]

ExpiryLabel(b) == IF b THEN "Expired" ELSE "Not Expired"

\* Is_Expired.value_counts().rename({True: 'Expired', False: 'Not Expired'}):
\* one count for each value that occurs
ExpiryStatus(frame, now) ==
    LET col == IsExpired(frame, now)
    IN  [l \in {ExpiryLabel(col[i]) : i \in 1..Len(col)} |->
            Cardinality({i \in 1..Len(col) : ExpiryLabel(col[i]) = l})]

RECURSIVE SortedDates(_)
SortedDates(S) ==
    IF S = {} THEN <<>>
    ELSE LET first == CHOOSE a \in S : \A b \in S : ~DateLess(b, a)
         IN  <<first>> \o SortedDates(S \ {first})

\* dropna(subset=["Expiry_Date"]).groupby("Expiry_Date")["Quantity"].sum()
ExpiryTrend(frame) ==
    LET kept == SelectSeq(frame, LAMBDA r : ~r.Expiry_Date.nat)
        sums == GroupSum(kept, "Expiry_Date")
        order == SortedDates(Keys(kept, "Expiry_Date"))
    IN  [i \in 1..Len(order) |->
            [Expiry_Date |-> order[i], Quantity |-> sums[order[i]]]]

\* .sort_values(ascending=True).head(n) in place of the descending sort
SortHeadAscending(sums, n) ==
    LET pick[a \in (SUBSET (DOMAIN sums)) \X (0..n)] ==
            IF a[2] = 0 \/ a[1] = {} THEN {<<>>}
            ELSE UNION {
                   {<<[Food_Item |-> k, Quantity |-> sums[k]]>> \o rest :
                       rest \in pick[<<a[1] \ {k}, a[2] - 1>>]} :
                   k \in {k \in a[1] : \A j \in a[1] : sums[k] <= sums[j]}}
    IN  pick[<<DOMAIN sums, n>>]

\* .sort_values(ascending=False).head(n): the default sort kind is not a
\* stable one, so equal sums may come out in any order; every outcome is here
SortHead(sums, n) ==
    LET pick[a \in (SUBSET (DOMAIN sums)) \X (0..n)] ==
            IF a[2] = 0 \/ a[1] = {} THEN {<<>>}
            ELSE UNION {
                   {<<[Food_Item |-> k, Quantity |-> sums[k]]>> \o rest :
                       rest \in pick[<<a[1] \ {k}, a[2] - 1>>]} :
                   k \in {k \in a[1] : \A j \in a[1] : sums[j] <= sums[k]}}
    IN  pick[<<DOMAIN sums, n>>]

\* the frames line 211 can produce
TopFood(frame) ==
    UNION {SortHead(sums, TopN) :
              sums \in {GroupSum(Clean(frame), "Food_Item")}}

NoDash == [shown |-> FALSE]

\* lines 166-250 over the cleaned frame c, given the top_food frame the sort
\* produced
Aggregates(c, now, top) ==
        [shown |-> TRUE,
         total_listings |-> Len(c),
         total_quantity |-> SumQuantity(c),
         unique_food_items |-> Cardinality(Keys(c, "Food_Item")),
         unique_providers |-> Cardinality(Keys(c, "Provider_ID")),
         num_expired |->
             Len(SelectSeq(c, LAMBDA r : DateLess(r.Expiry_Date, now))),
         quantity_by_location |-> GroupSum(c, "Location"),
         quantity_by_meal |-> GroupSum(c, "Meal_Type"),
         top_food |-> top,
         expiry_status |-> ExpiryStatus(c, now),
         avg_quantity_meal |-> GroupMean(c, "Meal_Type"),
         expiry_trend |-> ExpiryTrend(c)]

\* lines 157-262: clean the frame, take today's date, compute the aggregates
Dashboard(frame, t, top) ==
    CHOOSE d \in {Aggregates(c, now, top) :
                     c \in {Clean(frame)},
                     now \in {Timestamp(DateAt(t))}} : TRUE

----------------------------------------------------------------------------
(* The script run *)

NoContacts ==
    [clicked |-> FALSE, city |-> <<>>, df |-> <<>>, error |-> FALSE,
     warning |-> FALSE]

NoForm == [submitted |-> FALSE, input |-> <<>>, outcome |-> "none"]

NoOrphans == [food_listings |-> {}, providers |-> {}]

Init ==
    /\ disk = EmptyDb
    /\ txn = EmptyDb
    /\ cacheFood = NoCache
    /\ cacheProv = {}
    /\ today = 0
    /\ pc = "idle"
    /\ trigger = "none"
    /\ df = <<>>
    /\ contacts = NoContacts
    /\ form = NoForm
    /\ dash = NoDash
    /\ screen = "none"
    /\ orphans = NoOrphans

\* what makes Streamlit rerun the script: any widget change, a click on
\* "Show Contacts in Selected City", or "Add Food"; st.button and
\* st.form_submit_button are True only in the run their own click started
Triggers == {"rerun", "click", "submit"}

\* a rerun starts: the script's names are fresh, then create_tables() (line
\* 44) runs its two statements and commits whatever the connection holds
StartRun ==
    /\ pc = "idle"
    /\ trigger' \in Triggers
    /\ \E r \in {CreateTables(txn)} :
         IF r.err
         THEN /\ screen' = "exception"
              /\ pc' = "done"
              /\ UNCHANGED <<txn, disk>>
         ELSE /\ screen' = "running"
              /\ pc' = "tab1"
              /\ txn' = r.db
              /\ disk' = r.db
    /\ UNCHANGED <<cacheFood, cacheProv, today, df, contacts, form, dash,
                   orphans>>

\* lines 74-99: the listing table, the city filter and the contact button
Tab1 ==
    /\ pc = "tab1"
    /\ \E fault \in BOOLEAN :
       \E r \in {LoadFoodListings(cacheFood, txn, fault)} :
         IF r.stop
         THEN /\ screen' = "stopped"
              /\ pc' = "done"
              /\ UNCHANGED <<df, contacts, cacheFood, cacheProv>>
         ELSE /\ df' = r.df
              /\ cacheFood' = r.cache
              /\ pc' = "form"
              /\ UNCHANGED screen
              /\ IF r.df = <<>> \/ trigger # "click"
                 THEN UNCHANGED <<contacts, cacheProv>>
                 ELSE \E city \in Keys(r.df, "Location"), pfault \in BOOLEAN :
                      \E c \in {LoadProvidersByCity(cacheProv, txn, city,
                                                    pfault)} :
                        /\ Cardinality(c.cache) <= MaxCached
                        /\ contacts' = [clicked |-> TRUE, city |-> city,
                                        df |-> c.df, error |-> c.error,
                                        warning |-> c.df = <<>>]
                        /\ cacheProv' = c.cache
    /\ UNCHANGED <<disk, txn, today, trigger, form, dash, orphans>>

NewRows(after, before) == Range(after) \ Range(before)

\* lines 101-148: the form, and the submit handler when it was submitted
Form ==
    /\ pc = "form"
    /\ pc' = "tab2"
    /\ IF trigger # "submit"
       THEN /\ form' = NoForm
            /\ UNCHANGED <<disk, txn, orphans>>
       ELSE \E s \in Submissions(today) :
            \E inp \in {s[1]}, r \in {AddListing(txn, s[1], s[2])} :
              /\ Len(r.db.food_listings) <= MaxRows
              /\ form' = [submitted |-> TRUE, input |-> inp,
                          outcome |-> r.outcome]
              /\ txn' = r.db
              /\ disk' = IF r.commit THEN r.db ELSE disk
              /\ orphans' =
                   IF r.outcome = "error"
                   THEN [food_listings |-> orphans.food_listings \cup
                             NewRows(r.db.food_listings, txn.food_listings),
                         providers |-> orphans.providers \cup
                             NewRows(r.db.providers, txn.providers)]
                   ELSE orphans
    /\ UNCHANGED <<cacheFood, cacheProv, today, trigger, df, contacts, dash,
                   screen>>

\* lines 151-262: the dashboard
Tab2 ==
    /\ pc = "tab2"
    /\ pc' = "done"
    /\ \E fault \in BOOLEAN :
       \E r \in {LoadFoodListings(cacheFood, txn, fault)} :
         IF r.stop
         THEN /\ screen' = "stopped"
              /\ UNCHANGED <<df, dash, cacheFood>>
         ELSE /\ screen' = "ok"
              /\ df' = r.df
              /\ cacheFood' = r.cache
              /\ IF r.df = <<>>
                 THEN dash' = NoDash
                 ELSE \E top \in TopFood(r.df) :
                        dash' = Dashboard(r.df, today, top)
    /\ UNCHANGED <<disk, txn, cacheProv, today, trigger, contacts, form,
                   orphans>>

\* the script returns: its names are dropped, the session waits for the next
\* widget event
Finish ==
    /\ pc = "done"
    /\ pc' = "idle"
    /\ trigger' = "none"
    /\ df' = <<>>
    /\ contacts' = NoContacts
    /\ form' = NoForm
    /\ dash' = NoDash
    /\ screen' = "none"
    /\ UNCHANGED <<disk, txn, cacheFood, cacheProv, today, orphans>>

\* what stays as it is while only time passes
run == <<pc, trigger, df, contacts, form, dash, screen>>

\* @st.cache_data(ttl=60) on load_food_listings: the entry expires
ExpireFoodCache ==
    /\ pc = "idle"
    /\ cacheFood.valid
    /\ cacheFood' = NoCache
    /\ UNCHANGED <<run, disk, txn, cacheProv, today, orphans>>

\* @st.cache_data(ttl=60) on load_providers_by_city: an entry expires
ExpireProvCache ==
    /\ pc = "idle"
    /\ \E e \in cacheProv : cacheProv' = cacheProv \ {e}
    /\ UNCHANGED <<run, disk, txn, cacheFood, today, orphans>>

\* @st.cache_resource(ttl=3600) on get_connection: the connection expires and
\* the next call opens a new one; what the old one had not committed is gone
ExpireConnection ==
    /\ pc = "idle"
    /\ txn # disk
    /\ txn' = disk
    /\ orphans' =
         [food_listings |->
              orphans.food_listings \cap Range(disk.food_listings),
          providers |-> orphans.providers \cap Range(disk.providers)]
    /\ UNCHANGED <<run, disk, cacheFood, cacheProv, today>>

\* date.today() moves on
NextDate ==
    /\ pc = "idle"
    /\ today < MaxDay
    /\ today' = today + 1
    /\ UNCHANGED <<run, disk, txn, cacheFood, cacheProv, orphans>>

Next ==
    \/ StartRun
    \/ Tab1
    \/ Form
    \/ Tab2
    \/ Finish
    \/ ExpireFoodCache
    \/ ExpireProvCache
    \/ ExpireConnection
    \/ NextDate

Spec == Init /\ [][Next]_vars

----------------------------------------------------------------------------
(* The dashboard over a listing table that was there before the app ran:   *)
(* CREATE TABLE IF NOT EXISTS keeps whatever food_wastage.db already holds *)

AggBase ==
    [Food_ID |-> <<"F", "1">>, Provider_ID |-> <<"P", "1">>,
     Food_Item |-> <<"a">>, Quantity |-> MinValue,
     Expiry_Date |-> Strftime(DateAt(MaxDay)), Location |-> Goa,
     Meal_Type |-> Veg]

AggItems == {<<"a">>, <<>>, Unknown}

AggQuantities == {1, 2}

\* a date already past on the second day, and texts that are no date
AggDates ==
    {Strftime(DateAt(0)), <<"n", "/", "a">>,
     <<"2", "0", "2", "4", "-", "0", "2", "-", "3", "0">>}

AggRows ==
    {[AggBase EXCEPT !.Food_Item = i, !.Quantity = q] :
        i \in AggItems, q \in AggQuantities}
    \cup {[AggBase EXCEPT !.Expiry_Date = e] : e \in AggDates}
    \cup {[AggBase EXCEPT !.Location = Pune, !.Meal_Type = <<>>,
                          !.Provider_ID = <<"P", "2">>]}

\* five more food items, so that more than TopN groups exist
AggSeed ==
    << [AggBase EXCEPT !.Food_Item = <<"c">>, !.Quantity = 3],
       [AggBase EXCEPT !.Food_Item = <<"g">>, !.Quantity = 2],
       [AggBase EXCEPT !.Food_Item = <<"e">>, !.Quantity = 2],
       [AggBase EXCEPT !.Food_Item = <<"f">>, !.Quantity = 1],
       [AggBase EXCEPT !.Food_Item = <<"d">>, !.Quantity = 1] >>

AggTables ==
    {seed \o tail :
        seed \in {<<>>, AggSeed},
        tail \in UNION {[1..n -> AggRows] : n \in 0..MaxAggRows}}

RECURSIVE InsertAll(_, _)
InsertAll(db, rows) ==
    IF rows = <<>> THEN db
    ELSE InsertAll(InsertListing(db, Head(rows)), Tail(rows))

\* the script is at tab 2 of a run over such a table: tab 1 has loaded and
\* cached the frame, nothing was submitted
AggInit ==
    \E rows \in AggTables, t \in 0..MaxDay :
        LET db == InsertAll(CreateTables(EmptyDb).db, rows)
        IN  /\ disk = db
            /\ txn = db
            /\ cacheFood = [valid |-> TRUE, df |-> db.food_listings]
            /\ cacheProv = {}
            /\ today = t
            /\ pc = "tab2"
            /\ trigger = "rerun"
            /\ df = db.food_listings
            /\ contacts = NoContacts
            /\ form = NoForm
            /\ dash = NoDash
            /\ screen = "running"
            /\ orphans = NoOrphans

AggNext == Tab2 \/ Finish

AggSpec == AggInit /\ [][AggNext]_vars

----------------------------------------------------------------------------
(* Properties *)

OnlyWhitespace(s) == Range(s) \subseteq Whitespace

Trimmed(s) ==
    s # <<>> /\ s[1] \notin Whitespace /\ s[Len(s)] \notin Whitespace

IsPrefix(s, t) == Len(s) <= Len(t) /\ SubSeq(t, 1, Len(s)) = s

RECURSIVE SumOver(_, _)
SumOver(f, S) ==
    IF S = {} THEN 0
    ELSE LET k == CHOOSE k \in S : TRUE IN f[k] + SumOver(f, S \ {k})

\* the run reached its last line with the dashboard drawn
DashboardShown == pc = "done" /\ screen = "ok" /\ dash.shown

\* C1: no two rows of the providers table written by successful add calls
\* hold the same (Name, Contact, City), however often those calls supplied
\* that tuple.
C1_UpsertIdempotent ==
    \A i, j \in 1..Len(txn.providers) :
        (/\ txn.providers[i] \notin orphans.providers
         /\ txn.providers[j] \notin orphans.providers
         /\ txn.providers[i].Name = txn.providers[j].Name
         /\ txn.providers[i].Contact = txn.providers[j].Contact
         /\ txn.providers[i].City = txn.providers[j].City) => i = j

\* C2: a row written by an add call that reported failure is never in the
\* committed tables, neither at once nor after a later commit.
C2_AtomicAdd ==
    /\ orphans.food_listings \cap Range(disk.food_listings) = {}
    /\ orphans.providers \cap Range(disk.providers) = {}

\* the input C3 speaks of: quantity <= 0, or a required text field empty
\* after trimming
RejectedInput(inp) ==
    \/ inp.quantity <= 0
    \/ \E f \in StringFields : OnlyWhitespace(inp[f])

\* C3: a submit with such an input is rejected, and both tables (as the
\* connection sees them and as committed) hold as many rows after it as
\* before.
C3_InvalidRejected ==
    [][(pc = "form" /\ form'.submitted /\ RejectedInput(form'.input)) =>
         /\ form'.outcome = "warning"
         /\ Len(txn'.food_listings) = Len(txn.food_listings)
         /\ Len(txn'.providers) = Len(txn.providers)
         /\ Len(disk'.food_listings) = Len(disk.food_listings)
         /\ Len(disk'.providers) = Len(disk.providers)]_vars

\* a submit with a blank provider contact was rejected while the table holds
\* rows
C3_Witness ==
    /\ pc = "tab2"
    /\ form.submitted
    /\ OnlyWhitespace(form.input.provider_contact)
    /\ form.outcome = "warning"
    /\ txn.food_listings # <<>>

C5_ReadFaultSurfaces ==
    contacts.clicked =>
        /\ contacts.error => screen = "stopped"
        /\ contacts.df = <<>> =>
             \A i \in 1..Len(txn.providers) :
                 txn.providers[i].City # contacts.city

StoredRowsOk(db) ==
    /\ \A i \in 1..Len(db.food_listings) :
         LET r == db.food_listings[i]
         IN  /\ r.Quantity > 0
             /\ r.Meal_Type \in MealTypes
             /\ Trimmed(r.Food_ID)
             /\ Trimmed(r.Provider_ID)
             /\ Trimmed(r.Food_Item)
             /\ Trimmed(r.Location)
    /\ \A i \in 1..Len(db.providers) :
         LET r == db.providers[i]
         IN  /\ ~OnlyWhitespace(r.Name)
             /\ ~OnlyWhitespace(r.Contact)
             /\ ~OnlyWhitespace(r.City)

\* C6: every stored listing row has Quantity > 0, a Meal_Type of the three,
\* and Food_ID, Provider_ID, Food_Item and Location non-empty and trimmed;
\* every stored provider row has Name, Contact and City non-empty after
\* trimming.
C6_StoredRows == StoredRowsOk(txn) /\ StoredRowsOk(disk)

\* an input typed with whitespace around its fields was just stored
C6_Witness ==
    /\ pc = "tab2"
    /\ form.outcome = "success"
    /\ Head(form.input.food_id) \in Whitespace
    /\ Head(form.input.provider_name) \in Whitespace
    /\ disk.food_listings # <<>>
    /\ disk.providers # <<>>

\* C7: every call of create_tables, the first or a later one, raises no
\* error and leaves the rows of both tables as they were: the connection
\* sees the same rows, and no committed row is lost or changed.
C7_InitializeIdempotent ==
    [][StartRun =>
         /\ screen' # "exception"
         /\ txn'.food_listings = txn.food_listings
         /\ txn'.providers = txn.providers
         /\ IsPrefix(disk.food_listings, disk'.food_listings)
         /\ IsPrefix(disk.providers, disk'.providers)]_vars

\* create_tables has just run over tables that hold rows
C7_Witness ==
    /\ pc = "tab1"
    /\ disk.food_listings # <<>>
    /\ disk.providers # <<>>

BucketCount(label) ==
    IF label \in DOMAIN dash.expiry_status THEN dash.expiry_status[label] ELSE 0

\* C8: the Expired bucket counts the rows with a parsable date before the
\* reference date, the Not Expired bucket the rows with a parsable date on
\* or after it, rows with an unparsable date are in neither; so the two
\* buckets and the unparsable rows add up to the row count.
C8_ExpiredVsNot ==
    DashboardShown =>
        LET c == Clean(df)
            now == Timestamp(DateAt(today))
            rows == 1..Len(c)
            expired == {i \in rows : ~c[i].Expiry_Date.nat
                                     /\ DateLess(c[i].Expiry_Date, now)}
            fresh == {i \in rows : ~c[i].Expiry_Date.nat
                                   /\ ~DateLess(c[i].Expiry_Date, now)}
            unparsable == {i \in rows : c[i].Expiry_Date.nat}
        IN  /\ BucketCount("Expired") = Cardinality(expired)
            /\ BucketCount("Not Expired") = Cardinality(fresh)
            /\ BucketCount("Expired") + BucketCount("Not Expired")
                 + Cardinality(unparsable) = Len(c)

\* per food item of the cleaned frame: its summed quantity and the first row
\* it appears in
ItemSum(k) == SumQuantity(RowsOf(Clean(df), "Food_Item", k))

FirstSeen(k) ==
    CHOOSE i \in 1..Len(df) :
        /\ Clean(df)[i].Food_Item = k
        /\ \A j \in 1..(i - 1) : Clean(df)[j].Food_Item # k

\* what C9 keeps of the original statement: at most 5 entries, as many as
\* there are groups up to 5, each a distinct food item with its summed
\* quantity, in descending order of the sums, and no group left out has a
\* larger sum than a group that is in
TopFiveOfLargest ==
    LET top == dash.top_food
        items == Keys(Clean(df), "Food_Item")
        inTop == {top[i].Food_Item : i \in 1..Len(top)}
    IN  /\ Len(top) <= 5
        /\ Len(top) = IF Cardinality(items) < 5 THEN Cardinality(items) ELSE 5
        /\ \A i \in 1..Len(top) :
             /\ top[i].Food_Item \in items
             /\ top[i].Quantity = ItemSum(top[i].Food_Item)
        /\ \A i, j \in 1..Len(top) :
             i < j => /\ top[i].Food_Item # top[j].Food_Item
                      /\ top[i].Quantity >= top[j].Quantity
        /\ \A k \in items \ inTop : \A i \in 1..Len(top) :
             ItemSum(k) <= top[i].Quantity

C10_LocationSumsTotal ==
    DashboardShown =>
        /\ SumOver(dash.quantity_by_location,
                   DOMAIN dash.quantity_by_location) = dash.total_quantity
        /\ dash.total_quantity =
             SumOver([i \in 1..Len(df) |-> df[i].Quantity], 1..Len(df))

\* two locations, one of them with several rows
C10_Witness ==
    /\ DashboardShown
    /\ Cardinality(DOMAIN dash.quantity_by_location) >= 2
    /\ \E i, j \in 1..Len(df) : i # j /\ df[i].Location = df[j].Location

====
